---- MODULE Spec2Model ----
(***************************************************************************)
(* Model of the Environment trait of src/src/db/eval.rs and of its two     *)
(* implementations, MemoryEnv (maps in memory) and Session (two column     *)
(* families of an ordered transactional key-value store).  The same call   *)
(* sequence is applied to one MemoryEnv and one Session, so every          *)
(* reachable state holds the state of both backends after that sequence.   *)
(***************************************************************************)
EXTENDS Integers, Sequences, FiniteSets, TLC

VARIABLES
    root,             \* MemoryEnv.root : name -> tuple
    stack,            \* MemoryEnv.stack : sequence of maps name -> tuple
    max_storage_id,   \* MemoryEnv.max_storage_id
    perm_cf,          \* Session: the permanent column family, key -> value
    temp_cf,          \* Session: the temporary column family, key -> value
    stack_depth,      \* Session.stack_depth
    res,              \* the Result the last call returned, per backend
    ids,              \* history: the ids get_next_storage_id returned
    tok,              \* history: number of define_data calls made, by any caller
    scopes,           \* history: per open nested scope, the <<name, tuple>> defined in it
    exited,           \* history: the <<name, tuple>> defined in nested scopes since exited
    pushed,           \* history: the depths read just before each open push_env
    groot,            \* history: name -> the tuple last defined in root and not deleted
    base_local        \* history: names defined locally while no nested scope was open

vars == <<root, stack, max_storage_id, perm_cf, temp_cf, stack_depth,
          res, ids, tok, scopes, exited, pushed, groot, base_local>>

(***************************************************************************)
(* Bounds of the model.                                                    *)
(***************************************************************************)
MaxDepth == 2      \* unmatched push_env calls
MaxDefs == 2       \* define_data calls
MaxIds == 2        \* get_next_storage_id calls

Names == {"x", "y"}

(***************************************************************************)
(* Values and tuples.  A Value is a tagged record; a text is a sequence of *)
(* string tokens, a name being the text of one token.  A Tuple is a prefix *)
(* tag (the null prefix of keys, or a DataKind) and its elements in order. *)
(***************************************************************************)
NullV == [t |-> "Null", s |-> <<>>, i |-> 0]
BoolV(b) == [t |-> "Bool", s |-> <<>>, i |-> IF b THEN 1 ELSE 0]
UIntV(u) == [t |-> "UInt", s |-> <<>>, i |-> u]
IntV(n) == [t |-> "Int", s |-> <<>>, i |-> n]
TextV(s) == [t |-> "Text", s |-> s, i |-> 0]
StrV(name) == TextV(<<name>>)

WithNullPrefix == [prefix |-> "Null", data |-> <<>>]
WithDataPrefix(kind) == [prefix |-> kind, data |-> <<>>]
Push(tuple, v) == [tuple EXCEPT !.data = Append(@, v)]

\* Option::None, and the empty byte string stored under an index key.
None == [prefix |-> "None", data |-> <<>>]
EmptySlice == [prefix |-> "Empty", data |-> <<>>]

\* Tuple::starts_with: prefix equality on whole elements.
StartsWith(tuple, p) ==
    /\ tuple.prefix = p.prefix
    /\ Len(p.data) <= Len(tuple.data)
    /\ SubSeq(tuple.data, 1, Len(p.data)) = p.data

\* The byte order of encoded tuples agrees with the lexicographic order of
\* their elements; integers are ordered by value, negative ones included.
TagRank(t) ==
    CASE t = "Null" -> 0
      [] t = "Bool" -> 1
      [] t = "Int" -> 2
      [] t = "UInt" -> 3
      [] OTHER -> 4

StrRank(str) == IF str = "x" THEN 1 ELSE IF str = "y" THEN 2 ELSE 3

RECURSIVE TextLess(_, _)
TextLess(a, b) ==
    IF a = <<>> THEN b # <<>>
    ELSE IF b = <<>> THEN FALSE
    ELSE IF a[1] = b[1] THEN TextLess(Tail(a), Tail(b))
    ELSE StrRank(a[1]) < StrRank(b[1])

ValueLess(a, b) ==
    IF a.t # b.t THEN TagRank(a.t) < TagRank(b.t)
    ELSE IF a.t = "Text" THEN TextLess(a.s, b.s)
    ELSE a.i < b.i

RECURSIVE DataLess(_, _)
DataLess(a, b) ==
    IF a = <<>> THEN b # <<>>
    ELSE IF b = <<>> THEN FALSE
    ELSE IF a[1] = b[1] THEN DataLess(Tail(a), Tail(b))
    ELSE ValueLess(a[1], b[1])

KeyLess(a, b) == DataLess(a.data, b.data)

(***************************************************************************)
(* The transaction's view of one column family: a function from keys to    *)
(* values, read by get, written by put and del, and walked in key order by *)
(* an iterator positioned with seek.                                       *)
(***************************************************************************)
EmptyMap == [k \in {} |-> None]
MapPut(m, k, v) == [j \in DOMAIN m \cup {k} |-> IF j = k THEN v ELSE m[j]]
MapDel(m, k) == [j \in DOMAIN m \ {k} |-> m[j]]
MapGet(m, k) == IF k \in DOMAIN m THEN m[k] ELSE None

TxnGet(cf, key) == MapGet(cf, key)
TxnPut(cf, key, val) == MapPut(cf, key, val)
TxnDel(cf, key) == MapDel(cf, key)

\* The least of a non-empty set of keys.
MinKey(S) == CHOOSE k \in S : \A j \in S : j = k \/ KeyLess(k, j)

\* it.seek(key); it.key(): the first key not less than `key`, or None.
Seek(cf, key) ==
    LET ge == {k \in DOMAIN cf : ~KeyLess(k, key)}
    IN IF ge = {} THEN None ELSE MinKey(ge)

(***************************************************************************)
(* Environment::encode_definable_key, with depth = self.get_stack_depth(). *)
(***************************************************************************)
EncodeDefinableKey(depth, name, in_root) ==
    LET depth_code == IF in_root THEN 0 ELSE depth
    IN Push(Push(WithNullPrefix, StrV(name)), IntV(depth_code))

(***************************************************************************)
(* MemoryEnv.                                                              *)
(***************************************************************************)
MemoryEnvDefault == [root |-> EmptyMap, stack |-> <<EmptyMap>>, max_storage_id |-> 0]

\* The new value of max_storage_id, which is also the id returned.
MemGetNextStorageId(max, in_root) == max + 1

MemGetStackDepth(stk) == -Len(stk)

MemPushEnv(stk) == Append(stk, EmptyMap)

MemPopEnv(stk) == IF Len(stk) > 1 THEN SubSeq(stk, 1, Len(stk) - 1) ELSE stk

\* for layer in self.stack.iter(): the first layer, from the bottom, that
\* holds the name; then the root map.
\* Mutant: resolve looks in root before the scopes.
MemResolve_rootFirst(rt, stk, name) ==
    LET hit == {i \in 1..Len(stk) : name \in DOMAIN stk[i]}
    IN IF name \in DOMAIN rt
       THEN rt[name]
       ELSE IF hit # {}
       THEN stk[CHOOSE i \in hit : \A j \in hit : i <= j][name]
       ELSE None

MemResolve(rt, stk, name) ==
    LET hit == {i \in 1..Len(stk) : name \in DOMAIN stk[i]}
    IN IF hit # {}
       THEN stk[CHOOSE i \in hit : \A j \in hit : i <= j][name]
       ELSE MapGet(rt, name)

\* for layer in self.stack.iter_mut().rev(): the name is removed from the
\* first layer, from the top, that holds it.
MemDeleteDefined(rt, stk, name, in_root) ==
    IF in_root
    THEN [root |-> MapDel(rt, name), stack |-> stk]
    ELSE LET hit == {i \in 1..Len(stk) : name \in DOMAIN stk[i]}
         IN IF hit = {}
            THEN [root |-> rt, stack |-> stk]
            ELSE LET top == CHOOSE i \in hit : \A j \in hit : i >= j
                 IN [root |-> rt,
                     stack |-> [stk EXCEPT ![top] = MapDel(@, name)]]

MemDefineData(rt, stk, name, data, in_root) ==
    IF in_root
    THEN [root |-> MapPut(rt, name, data), stack |-> stk]
    ELSE [root |-> rt,
          stack |-> [stk EXCEPT ![Len(stk)] = MapPut(@, name, data)]]

(***************************************************************************)
(* Session.                                                                *)
(***************************************************************************)
\* A session starts at depth 0 (pop_env never raises the depth above 0)
\* over column families that hold nothing yet.
SessionNew == [perm_cf |-> EmptyMap, temp_cf |-> EmptyMap, stack_depth |-> 0]

\* key_entry: the null-prefixed tuple holding one Null.
StorageIdKey == Push(WithNullPrefix, NullV)

\* The counter read from a column family, 0 when the key is absent.
SesStoredId(cf) ==
    LET en == TxnGet(cf, StorageIdKey)
    IN IF en # None THEN en.data[1].i ELSE 0

\* The id returned: (u + 1) as u32, which is u + 1 for every counter value
\* the model reaches.
SesNextId(cf) == SesStoredId(cf) + 1

\* Mutant: the incremented counter is never put back.
SesGetNextStorageId_noPut(cf) == cf

\* The column family after the call: the counter is put back, incremented.
SesGetNextStorageId(cf) ==
    TxnPut(cf, StorageIdKey, Push(WithNullPrefix, UIntV(SesStoredId(cf) + 1)))

SesGetStackDepth(depth) == depth

SesPushEnv(depth) == depth - 1

\* The iterator's next key after `cur`.
SeekAfter(cf, cur) ==
    LET gt == {k \in DOMAIN cf : KeyLess(cur, k)}
    IN IF gt = {} THEN None ELSE MinKey(gt)

\* The loop of pop_env: from the seek position, while the key starts with
\* the depth prefix, delete it and the (name, depth) key it indexes.
\* Mutant: only the index entry is deleted, the binding it indexes is kept.
RECURSIVE PopEnvScan_indexOnly(_, _, _, _)
PopEnvScan_indexOnly(cf, cur, prefix, depth) ==
    IF cur = None \/ ~StartsWith(cur, prefix)
    THEN cf
    ELSE LET cf2 == TxnDel(cf, cur)
         IN PopEnvScan_indexOnly(cf2, SeekAfter(cf2, cur), prefix, depth)

RECURSIVE PopEnvScan(_, _, _, _)
PopEnvScan(cf, cur, prefix, depth) ==
    IF cur = None \/ ~StartsWith(cur, prefix)
    THEN cf
    ELSE LET ikey == Push(Push(WithNullPrefix, cur.data[2]), IntV(depth))
             cf2 == IF Len(cur.data) >= 2
                    THEN TxnDel(TxnDel(cf, cur), ikey)
                    ELSE cf
         IN PopEnvScan(cf2, SeekAfter(cf2, cur), prefix, depth)

\* Mutant: pop_env deletes nothing.
SesPopEnvTemp_keep(temp, depth) == temp

SesPopEnvTemp(temp, depth) ==
    LET prefix == Push(WithNullPrefix, IntV(depth))
    IN PopEnvScan(temp, Seek(temp, prefix), prefix, depth)

SesPopEnvDepth(depth) == IF depth # 0 THEN depth + 1 ELSE depth

SesResolve(perm, temp, depth, name) ==
    LET tuple == Push(WithNullPrefix, StrV(name))
        k == Seek(temp, tuple)
    IN IF k # None /\ StartsWith(k, tuple)
       THEN temp[k]
       ELSE TxnGet(perm, EncodeDefinableKey(depth, name, TRUE))

\* Mutant: delete_defined leaves the index entry of a local binding.
SesDeleteDefined_primaryOnly(perm, temp, depth, name, in_root) ==
    LET key == EncodeDefinableKey(depth, name, in_root)
    IN IF in_root
       THEN [perm_cf |-> TxnDel(perm, key), temp_cf |-> temp]
       ELSE [perm_cf |-> perm, temp_cf |-> TxnDel(temp, key)]

SesDeleteDefined(perm, temp, depth, name, in_root) ==
    LET key == EncodeDefinableKey(depth, name, in_root)
    IN IF in_root
       THEN [perm_cf |-> TxnDel(perm, key), temp_cf |-> temp]
       ELSE LET found == Seek(temp, key)
            IN IF found # None /\ StartsWith(found, key)
               THEN LET ikey == Push(Push(WithNullPrefix, found.data[2]), found.data[1])
                    IN [perm_cf |-> perm,
                        temp_cf |-> TxnDel(TxnDel(temp, found), ikey)]
               ELSE [perm_cf |-> perm, temp_cf |-> temp]

SesDefineData(perm, temp, depth, name, data, in_root) ==
    LET key == EncodeDefinableKey(depth, name, in_root)
    IN IF in_root
       THEN [perm_cf |-> TxnPut(perm, key, data), temp_cf |-> temp]
       ELSE LET ikey == Push(Push(WithNullPrefix, IntV(depth)), StrV(name))
            IN [perm_cf |-> perm,
                temp_cf |-> TxnPut(TxnPut(temp, key, data), ikey, EmptySlice)]

(***************************************************************************)
(* Environment::define_variable: the Value-kind tuple of one value.        *)
(***************************************************************************)
ValueTuple(val) == Push(WithDataPrefix("Value"), val)

(***************************************************************************)
(* The state machine of the scope operations.                              *)
(***************************************************************************)
Ok == [mem |-> "Ok", ses |-> "Ok"]

Init ==
    /\ root = MemoryEnvDefault.root
    /\ stack = MemoryEnvDefault.stack
    /\ max_storage_id = MemoryEnvDefault.max_storage_id
    /\ perm_cf = SessionNew.perm_cf
    /\ temp_cf = SessionNew.temp_cf
    /\ stack_depth = SessionNew.stack_depth
    /\ res = Ok
    /\ ids = [mem |-> [b \in BOOLEAN |-> <<>>], ses |-> [b \in BOOLEAN |-> <<>>]]
    /\ tok = 0
    /\ scopes = <<>>
    /\ exited = {}
    /\ pushed = <<>>
    /\ groot = EmptyMap
    /\ base_local = {}

Front(q) == SubSeq(q, 1, Len(q) - 1)
Last(q) == q[Len(q)]

PushEnv ==
    /\ Len(scopes) < MaxDepth
    /\ stack' = MemPushEnv(stack)
    /\ stack_depth' = SesPushEnv(stack_depth)
    /\ scopes' = Append(scopes, {})
    /\ pushed' = Append(pushed, [mem |-> MemGetStackDepth(stack),
                                 ses |-> SesGetStackDepth(stack_depth)])
    /\ res' = Ok
    /\ UNCHANGED <<root, max_storage_id, perm_cf, temp_cf, ids, tok, exited, groot,
                   base_local>>

PopEnv ==
    /\ stack' = MemPopEnv(stack)
    /\ temp_cf' = SesPopEnvTemp(temp_cf, stack_depth)
    /\ stack_depth' = SesPopEnvDepth(stack_depth)
    /\ IF Len(scopes) > 0
       THEN /\ scopes' = Front(scopes)
            /\ exited' = exited \cup Last(scopes)
            /\ pushed' = Front(pushed)
       ELSE UNCHANGED <<scopes, exited, pushed>>
    /\ res' = Ok
    /\ UNCHANGED <<root, max_storage_id, perm_cf, ids, tok, groot, base_local>>

\* What define_data and delete_defined do to the history variables.
Record(name, data, in_root) ==
    /\ scopes' = IF ~in_root /\ Len(scopes) > 0
                 THEN [scopes EXCEPT ![Len(scopes)] = @ \cup {<<name, data>>}]
                 ELSE scopes
    /\ groot' = IF in_root THEN MapPut(groot, name, data) ELSE groot
    /\ base_local' = IF ~in_root /\ Len(scopes) = 0
                     THEN base_local \cup {name}
                     ELSE base_local

\* define_data(name, data, in_root), each call with a tuple of its own: the
\* tuple define_variable builds for the value UInt(tok + 1).
DefineData(name, in_root) ==
    /\ tok < MaxDefs
    /\ \E data \in {ValueTuple(UIntV(tok + 1))} :
       \E m \in {MemDefineData(root, stack, name, data, in_root)},
          s \in {SesDefineData(perm_cf, temp_cf, SesGetStackDepth(stack_depth),
                              name, data, in_root)} :
          /\ root' = m.root
          /\ stack' = m.stack
          /\ perm_cf' = s.perm_cf
          /\ temp_cf' = s.temp_cf
          /\ Record(name, data, in_root)
    /\ tok' = tok + 1
    /\ res' = Ok
    /\ UNCHANGED <<max_storage_id, stack_depth, ids, exited, pushed>>

DeleteDefined(name, in_root) ==
    /\ \E m \in {MemDeleteDefined(root, stack, name, in_root)},
          s \in {SesDeleteDefined(perm_cf, temp_cf, SesGetStackDepth(stack_depth),
                                 name, in_root)} :
          /\ root' = m.root
          /\ stack' = m.stack
          /\ perm_cf' = s.perm_cf
          /\ temp_cf' = s.temp_cf
    /\ groot' = IF in_root THEN MapDel(groot, name) ELSE groot
    /\ res' = Ok
    /\ UNCHANGED <<max_storage_id, stack_depth, ids, tok, scopes, exited, pushed,
                   base_local>>

IdsMade == Len(ids.mem[TRUE]) + Len(ids.mem[FALSE])

GetNextStorageId(in_root) ==
    /\ IdsMade < MaxIds
    /\ max_storage_id' = MemGetNextStorageId(max_storage_id, in_root)
    /\ IF in_root
       THEN /\ perm_cf' = SesGetNextStorageId(perm_cf)
            /\ temp_cf' = temp_cf
       ELSE /\ temp_cf' = SesGetNextStorageId(temp_cf)
            /\ perm_cf' = perm_cf
    /\ ids' = [mem |-> [ids.mem EXCEPT ![in_root] = Append(@, max_storage_id')],
               ses |-> [ids.ses EXCEPT ![in_root] =
                           Append(@, SesNextId(IF in_root THEN perm_cf ELSE temp_cf))]]
    /\ res' = Ok
    /\ UNCHANGED <<root, stack, stack_depth, tok, scopes, exited, pushed, groot,
                   base_local>>

Next ==
    \/ PushEnv
    \/ PopEnv
    \/ \E name \in Names, in_root \in BOOLEAN : DefineData(name, in_root)
    \/ \E name \in Names, in_root \in BOOLEAN : DeleteDefined(name, in_root)
    \/ \E in_root \in BOOLEAN : GetNextStorageId(in_root)

Spec == Init /\ [][Next]_vars

\* resolve(name) on each backend, in the current state.
MemRes(name) == MemResolve(root, stack, name)
SesRes(name) == SesResolve(perm_cf, temp_cf, SesGetStackDepth(stack_depth), name)

(***************************************************************************)
(* Claims about the scope operations.                                      *)
(***************************************************************************)
\* The depth a key of the temporary column family belongs to: (name, depth)
\* for a binding, (depth, name) for its index entry; the counter key has none.
KeyHasDepth(k, depth) ==
    /\ Len(k.data) = 2
    /\ \/ k.data[1].t = "Text" /\ k.data[2] = IntV(depth)
       \/ k.data[1] = IntV(depth) /\ k.data[2].t = "Text"

\* The <<name, tuple>> a backend holds as local bindings, of any depth.
MemLocals ==
    {<<n, stack[i][n]>> : <<i, n>> \in {p \in (1..Len(stack)) \X Names :
                                            p[2] \in DOMAIN stack[p[1]]}}
SesLocals ==
    {<<k.data[1].s[1], temp_cf[k]>> : k \in {j \in DOMAIN temp_cf :
                                        Len(j.data) = 2 /\ j.data[1].t = "Text"}}

\* C1: resolve(name) never returns a binding that was defined with
\* in_root = false in a nested scope that pop_env has since exited, on either
\* backend; and once every nested scope is closed, a name never bound locally
\* at the base level resolves to its root binding, or to none without one.
C1_NoLeak ==
    \A n \in Names :
        /\ <<n, MemRes(n)>> \notin exited
        /\ <<n, SesRes(n)>> \notin exited
        /\ (Len(scopes) = 0 /\ n \notin base_local) =>
              /\ MemRes(n) = MapGet(groot, n)
              /\ SesRes(n) = MapGet(groot, n)

\* A name defined in root, then locally in a nested scope since exited,
\* resolves to the root binding on both backends.
C1_Witness ==
    \E n \in Names :
        /\ Len(scopes) = 0
        /\ n \notin base_local
        /\ \E e \in exited : e[1] = n
        /\ n \in DOMAIN groot
        /\ MemRes(n) = groot[n]
        /\ SesRes(n) = groot[n]

\* A local binding of the name in a scope enclosing the current one.
MemBoundBelow(n) == \E i \in 1..(Len(stack) - 1) : n \in DOMAIN stack[i]
SesBoundBelow(n) ==
    \E d \in (stack_depth + 1)..0 :
        EncodeDefinableKey(d, n, FALSE) \in DOMAIN temp_cf

\* C2: when a name is bound with in_root = false in an enclosing scope and is
\* bound again with in_root = false inside a nested scope, resolve(name)
\* returns the inner tuple right after the inner define_data, on both backends.
C2_InnerWins ==
    [][\A n \in Names :
          (Len(scopes) > 0 /\ DefineData(n, FALSE)) =>
              /\ MemBoundBelow(n) => MemRes(n)' = ValueTuple(UIntV(tok'))
              /\ SesBoundBelow(n) => SesRes(n)' = ValueTuple(UIntV(tok'))]_vars

\* C3: pop_env with a nested scope open removes every local binding of the
\* scope being exited, changes no binding of an enclosing scope and no root
\* binding, and restores the depth read before the matching push_env.
C3_PopFrame ==
    [][(Len(scopes) > 0 /\ PopEnv) =>
          /\ root' = root
          /\ perm_cf' = perm_cf
          /\ Len(stack') = Len(stack) - 1
          /\ \A i \in 1..Len(stack') : stack'[i] = stack[i]
          /\ \A e \in Last(scopes) : e \notin MemLocals' /\ e \notin SesLocals'
          /\ \A k \in DOMAIN temp_cf' : ~KeyHasDepth(k, stack_depth)
          /\ \A k \in DOMAIN temp_cf :
                ~KeyHasDepth(k, stack_depth) =>
                    k \in DOMAIN temp_cf' /\ temp_cf'[k] = temp_cf[k]
          /\ DOMAIN temp_cf' \subseteq DOMAIN temp_cf
          /\ MemGetStackDepth(stack') = Last(pushed).mem
          /\ SesGetStackDepth(stack_depth') = Last(pushed).ses]_vars

\* An inner scope holding a binding has been exited while the enclosing
\* nested scope keeps a binding of its own on both backends.
C3_Witness ==
    /\ Len(scopes) = 1
    /\ exited # {}
    /\ \E e \in scopes[1] : e \in MemLocals /\ e \in SesLocals

\* C4: pop_env with no nested scope open changes nothing on either backend.
C4_PopAtBaseNoop ==
    [][(Len(scopes) = 0 /\ PopEnv) =>
          /\ root' = root
          /\ stack' = stack
          /\ max_storage_id' = max_storage_id
          /\ perm_cf' = perm_cf
          /\ temp_cf' = temp_cf
          /\ stack_depth' = stack_depth]_vars

StrictlyIncreasing(q) == \A i, j \in 1..Len(q) : i < j => q[i] < q[j]

C6_Independent ==
    [][\A b \in BOOLEAN :
          GetNextStorageId(b) =>
              /\ MemGetNextStorageId(max_storage_id', ~b)
                    = MemGetNextStorageId(max_storage_id, ~b)
              /\ SesNextId(IF b THEN temp_cf' ELSE perm_cf')
                    = SesNextId(IF b THEN temp_cf ELSE perm_cf)]_vars

\* C7: get_stack_depth is minus the number of unmatched push_env calls, so 0
\* with no nested scope open and never positive, on both backends.
C7_Depth ==
    /\ MemGetStackDepth(stack) = -Len(scopes)
    /\ SesGetStackDepth(stack_depth) = -Len(scopes)

(***************************************************************************)
(* The definition translator.  A parsed definition is a record: its kind   *)
(* (node_def, edge_def, associate_def, type_def), the name it defines, the *)
(* names of its source and destination tables, its column list, and        *)
(* in_root, TRUE under a global_def wrapper and FALSE under a local_def.   *)
(* A column is its key marker and its name; every column has the same,     *)
(* valid type, so a NamedTuple typing is the sequence of its column names. *)
(***************************************************************************)
Col(is_key, name) == [is_key |-> is_key, name |-> name]

\* The column lists definitions are made with: no column, one key column,
\* and a key column followed by a value column of the same name.
ColLists == {<<>>, <<Col(TRUE, "id")>>, <<Col(TRUE, "id"), Col(FALSE, "id")>>}

NodeDefs ==
    {[kind |-> "node", name |-> n, src |-> "", dst |-> "", cols |-> c, in_root |-> r] :
        n \in Names, c \in ColLists, r \in BOOLEAN}
EdgeDefs ==
    {[kind |-> "edge", name |-> n[1], src |-> n[2], dst |-> n[3], cols |-> c,
      in_root |-> r] : n \in Names \X Names \X Names, c \in ColLists, r \in BOOLEAN}
AssocDefs ==
    {[kind |-> "assoc", name |-> n[1], src |-> n[2], dst |-> "", cols |-> c,
      in_root |-> r] : n \in Names \X Names, c \in ColLists, r \in BOOLEAN}
TypeDefs ==
    {[kind |-> "type", name |-> n, src |-> "", dst |-> "", cols |-> <<>>, in_root |-> r] :
        n \in Names, r \in BOOLEAN}
Defs == NodeDefs \cup EdgeDefs \cup AssocDefs \cup TypeDefs

\* Typing::to_string of a NamedTuple: "()" when it has no column.
TypingToString(typing) == <<"(">> \o typing \o <<")">>

PushAll(tuple, values) == [tuple EXCEPT !.data = @ \o values]

Fail(err) == [err |-> err, name |-> "", tuple |-> None]
Parsed(name, tuple) == [err |-> "Ok", name |-> name, tuple |-> tuple]

\* Mutant: parse_cols without its test of the names.
ParseCols_noCheck(cols) ==
    LET IsKey(c) == c.is_key
        IsVal(c) == ~c.is_key
        NamesOf(q) == [i \in 1..Len(q) |-> q[i].name]
    IN [err |-> "Ok",
        keys |-> NamesOf(SelectSeq(cols, IsKey)),
        vals |-> NamesOf(SelectSeq(cols, IsVal))]

ParseCols(cols) ==
    LET all_names == {cols[i].name : i \in 1..Len(cols)}
        IsKey(c) == c.is_key
        IsVal(c) == ~c.is_key
        NamesOf(q) == [i \in 1..Len(q) |-> q[i].name]
    IN IF Cardinality(all_names) # Len(cols)
       THEN [err |-> "DuplicateNames", keys |-> <<>>, vals |-> <<>>]
       ELSE [err |-> "Ok",
             keys |-> NamesOf(SelectSeq(cols, IsKey)),
             vals |-> NamesOf(SelectSeq(cols, IsVal))]

\* extract_table_id: the kind, the global flag and the id of a resolved
\* definition; "panic" where the code panics with "Data corrupt".
ExtractTableId(src_tbl) ==
    LET kind == src_tbl.prefix
        Bad(err) == [err |-> err, kind |-> kind, is_global |-> FALSE, id |-> 0]
    IN IF kind \in {"DataTuple", "Value", "TypeAlias"}
       THEN Bad("UnexpectedDataKind")
       ELSE IF Len(src_tbl.data) < 1 \/ src_tbl.data[1].t # "Bool"
       THEN Bad("panic")
       ELSE IF Len(src_tbl.data) < 2 \/ src_tbl.data[2].t # "UInt"
       THEN Bad("panic")
       ELSE [err |-> "Ok", kind |-> kind,
             is_global |-> (src_tbl.data[1].i = 1), id |-> src_tbl.data[2].i]

\* The tuple a node definition with these typings is stored as.
NodeTuple(pc) ==
    PushAll(WithDataPrefix("Node"),
            <<TextV(TypingToString(pc.keys)), TextV(TypingToString(pc.vals)),
              NullV, NullV>>)

ParseNodeDefCols(def, pc) ==
    IF pc.err # "Ok" THEN Fail(pc.err) ELSE Parsed(def.name, NodeTuple(pc))

ParseNodeDef(def) == ParseNodeDefCols(def, ParseCols(def.cols))

\* Mutant: an association may carry keys.
AssocHasKeys_never(keys_typing) == FALSE

\* The test `keys_typing.to_string() != "()"` of parse_assoc_def.
AssocHasKeys(keys_typing) == TypingToString(keys_typing) # <<"(", ")">>

\* parse_assoc_def from line 89 on: the columns, given the source's flag and id.
ParseAssocDefCols(def, x, pc) ==
    IF pc.err # "Ok"
    THEN Fail(pc.err)
    ELSE IF AssocHasKeys(pc.keys)
    THEN Fail("LogicError")
    ELSE Parsed(def.name,
                PushAll(WithDataPrefix("Associate"),
                        <<BoolV(x.is_global), UIntV(x.id),
                          TextV(TypingToString(pc.vals))>>))

\* Mutant: a root association may be made over a local source.
ParseAssocDefSrc_noScope(def, x) ==
    IF x.err # "Ok"
    THEN Fail(x.err)
    ELSE ParseAssocDefCols(def, x, ParseCols(def.cols))

\* parse_assoc_def from line 84 on: x is what extract_table_id returned.
ParseAssocDefSrc(def, x) ==
    IF x.err # "Ok"
    THEN Fail(x.err)
    ELSE IF def.in_root /\ ~x.is_global
    THEN Fail("LogicError")
    ELSE ParseAssocDefCols(def, x, ParseCols(def.cols))

ParseAssocDef(src_tbl, def) ==
    IF src_tbl = None
    THEN Fail("UndefinedType")
    ELSE ParseAssocDefSrc(def, ExtractTableId(src_tbl))

\* A type alias of one valid type expression.
ParseTypeDef(def) ==
    Parsed(def.name, Push(WithDataPrefix("TypeAlias"), TextV(<<"Int">>)))

BadEndpoint(err) == [err |-> err, is_global |-> FALSE, id |-> 0]

\* Mutant: a root edge may have a local endpoint.
EdgeEndpointId_noScope(x, in_root) ==
    IF x.err # "Ok"
    THEN BadEndpoint(x.err)
    ELSE IF x.kind # "Node"
    THEN BadEndpoint("UnexpectedDataKind")
    ELSE [err |-> "Ok", is_global |-> x.is_global, id |-> x.id]

\* Mutant: an endpoint may be of any table kind.
EdgeEndpointId_noKind(x, in_root) ==
    IF x.err # "Ok"
    THEN BadEndpoint(x.err)
    ELSE IF in_root /\ ~x.is_global
    THEN BadEndpoint("LogicError")
    ELSE [err |-> "Ok", is_global |-> x.is_global, id |-> x.id]

\* What parse_edge_def does with what extract_table_id returned for one
\* endpoint, the source (lines 112-118) and then the destination (lines
\* 125-131): refuse a local endpoint of a root edge, then what is not a Node.
EdgeEndpointId(x, in_root) ==
    IF x.err # "Ok"
    THEN BadEndpoint(x.err)
    ELSE IF in_root /\ ~x.is_global
    THEN BadEndpoint("LogicError")
    ELSE IF x.kind # "Node"
    THEN BadEndpoint("UnexpectedDataKind")
    ELSE [err |-> "Ok", is_global |-> x.is_global, id |-> x.id]

\* One endpoint of an edge, from what resolve returned for its name.
EdgeEndpoint(tbl, in_root) ==
    IF tbl = None
    THEN BadEndpoint("UndefinedType")
    ELSE EdgeEndpointId(ExtractTableId(tbl), in_root)

\* parse_edge_def from line 132 on.
ParseEdgeDefCols(def, s, d, pc) ==
    IF pc.err # "Ok"
    THEN Fail(pc.err)
    ELSE Parsed(def.name,
                PushAll(WithDataPrefix("Edge"),
                        <<BoolV(s.is_global), UIntV(s.id),
                          BoolV(d.is_global), UIntV(d.id),
                          TextV(TypingToString(pc.keys)),
                          TextV(TypingToString(pc.vals)), NullV, NullV>>))

\* parse_edge_def from line 119 on: s is the source endpoint, accepted.
ParseEdgeDefDst(def, s, d) ==
    IF d.err # "Ok" THEN Fail(d.err) ELSE ParseEdgeDefCols(def, s, d, ParseCols(def.cols))

ParseEdgeDefSrc(def, s, dst_tbl) ==
    IF s.err # "Ok"
    THEN Fail(s.err)
    ELSE ParseEdgeDefDst(def, s, EdgeEndpoint(dst_tbl, def.in_root))

ParseEdgeDef(src_tbl, dst_tbl, def) ==
    ParseEdgeDefSrc(def, EdgeEndpoint(src_tbl, def.in_root), dst_tbl)

\* parse_definition: whether a storage id is needed, and the parse.  The
\* tables are what resolve returns for the source and destination names.
\* Mutant: every definition is given a storage id.
NeedId_always(def) == TRUE

NeedId(def) == def.kind # "type"

ParseDefinition(src_tbl, dst_tbl, def) ==
    CASE def.kind = "node" -> ParseNodeDef(def)
      [] def.kind = "edge" -> ParseEdgeDef(src_tbl, dst_tbl, def)
      [] def.kind = "assoc" -> ParseAssocDef(src_tbl, def)
      [] OTHER -> ParseTypeDef(def)

\* Mutant: the id is put ahead of the flag.
WithStorageId_swapped(tuple, in_root, id) ==
    [prefix |-> tuple.prefix, data |-> <<UIntV(id), BoolV(in_root)>> \o tuple.data]

\* run_definition: the tuple rebuilt with (in_root, id) ahead of its body.
WithStorageId(tuple, in_root, id) ==
    [prefix |-> tuple.prefix, data |-> <<BoolV(in_root), UIntV(id)>> \o tuple.data]

\* run_definition from line 185 on, on a MemoryEnv: p is the parse.
MemStoreDefinition(rt, stk, max, def, p) ==
    IF p.err # "Ok"
    THEN [res |-> p.err, root |-> rt, stack |-> stk, max_storage_id |-> max]
    ELSE IF NeedId(def)
    THEN [res |-> "Ok", max_storage_id |-> MemGetNextStorageId(max, def.in_root)]
         @@ MemDefineData(rt, stk, p.name,
                          WithStorageId(p.tuple, def.in_root,
                                        MemGetNextStorageId(max, def.in_root)),
                          def.in_root)
    ELSE [res |-> "Ok", max_storage_id |-> max]
         @@ MemDefineData(rt, stk, p.name, p.tuple, def.in_root)

MemRunDefinition(rt, stk, max, def) ==
    MemStoreDefinition(rt, stk, max, def,
                       ParseDefinition(MemResolve(rt, stk, def.src),
                                       MemResolve(rt, stk, def.dst), def))

\* run_definition from line 185 on, on a Session: p is the parse.
SesStoreDefinition(perm, temp, depth, def, p) ==
    IF p.err # "Ok"
    THEN [res |-> p.err, perm_cf |-> perm, temp_cf |-> temp]
    ELSE IF ~NeedId(def)
    THEN [res |-> "Ok"] @@ SesDefineData(perm, temp, depth, p.name, p.tuple, def.in_root)
    ELSE IF def.in_root
    THEN [res |-> "Ok"]
         @@ SesDefineData(SesGetNextStorageId(perm), temp, depth, p.name,
                          WithStorageId(p.tuple, TRUE, SesNextId(perm)), TRUE)
    ELSE [res |-> "Ok"]
         @@ SesDefineData(perm, SesGetNextStorageId(temp), depth, p.name,
                          WithStorageId(p.tuple, FALSE, SesNextId(temp)), FALSE)

SesRunDefinition(perm, temp, depth, def) ==
    SesStoreDefinition(perm, temp, depth, def,
                       ParseDefinition(SesResolve(perm, temp, depth, def.src),
                                       SesResolve(perm, temp, depth, def.dst), def))

(***************************************************************************)
(* The state machine of the definitions: run_definition on both backends,  *)
(* among define_data calls that bind plain values.  A call that reaches    *)
(* define_data counts against MaxDefs like a direct one.                   *)
(***************************************************************************)
RunDefinition(def) ==
    \E m \in {MemRunDefinition(root, stack, max_storage_id, def)},
       s \in {SesRunDefinition(perm_cf, temp_cf, SesGetStackDepth(stack_depth), def)} :
       /\ (m.res = "Ok" \/ s.res = "Ok") => tok < MaxDefs
       /\ root' = m.root
       /\ stack' = m.stack
       /\ max_storage_id' = m.max_storage_id
       /\ perm_cf' = s.perm_cf
       /\ temp_cf' = s.temp_cf
       /\ res' = [mem |-> m.res, ses |-> s.res]
       /\ tok' = IF m.res = "Ok" \/ s.res = "Ok" THEN tok + 1 ELSE tok
       /\ UNCHANGED <<stack_depth, ids, scopes, exited, pushed, groot, base_local>>

NextDef ==
    \/ \E def \in Defs : RunDefinition(def)
    \/ \E name \in Names, in_root \in BOOLEAN : DefineData(name, in_root)

SpecDef == Init /\ [][NextDef]_vars

(***************************************************************************)
(* Claims about run_definition.  Each is stated of the call made in a      *)
(* reachable state, on both backends: what the call returns, whether it    *)
(* leaves the environment as it was, and what the defined name is bound to *)
(* afterwards in the scope the definition names.                           *)
(***************************************************************************)
MemOutcomeOf(r, def) ==
    [res |-> r.res,
     same |-> r.root = root /\ r.stack = stack /\ r.max_storage_id = max_storage_id,
     bound |-> IF def.in_root THEN MapGet(r.root, def.name)
               ELSE MapGet(Last(r.stack), def.name)]
MemOutcome(def) ==
    MemOutcomeOf(MemRunDefinition(root, stack, max_storage_id, def), def)

SesOutcomeOf(r, def) ==
    [res |-> r.res,
     same |-> r.perm_cf = perm_cf /\ r.temp_cf = temp_cf,
     bound |-> TxnGet(IF def.in_root THEN r.perm_cf ELSE r.temp_cf,
                      EncodeDefinableKey(SesGetStackDepth(stack_depth), def.name,
                                         def.in_root))]
SesOutcome(def) ==
    SesOutcomeOf(SesRunDefinition(perm_cf, temp_cf, SesGetStackDepth(stack_depth), def),
                 def)

\* What a name resolves to: a table definition, and its is_global flag.
IsTable(t) == t # None /\ t.prefix \in {"Node", "Edge", "Associate"}
IsGlobal(t) == t.data[1] = BoolV(TRUE)
GlobalNode(t) == t # None /\ t.prefix = "Node" /\ IsGlobal(t)
LocalNode(t) == t # None /\ t.prefix = "Node" /\ ~IsGlobal(t)
NonNode(t) == t # None /\ t.prefix # "Node"
LocalTable(t) == IsTable(t) /\ ~IsGlobal(t)

UniqueNames(cols) == Cardinality({cols[i].name : i \in 1..Len(cols)}) = Len(cols)
RootEdgeDefs == {def \in EdgeDefs : def.in_root}
KeyedAssocDefs == {def \in AssocDefs : \E i \in 1..Len(def.cols) : def.cols[i].is_key}

Failed(o) == o.res # "Ok" /\ o.same
FailedWith(o, err) == o.res = err /\ o.same

C8Case(def, s, d, o) ==
    /\ (LocalNode(s) \/ LocalNode(d)) => Failed(o)
    /\ (LocalNode(s) \/ (GlobalNode(s) /\ LocalNode(d))) => o.res = "LogicError"
    /\ (GlobalNode(s) /\ GlobalNode(d) /\ UniqueNames(def.cols)) =>
          /\ o.res = "Ok"
          /\ o.bound # None
          /\ o.bound.prefix = "Edge"
          /\ o.bound.data[1] = BoolV(TRUE)

\* C8 (amended): an edge definition made in root fails and stores no binding
\* whenever its source or its destination resolves to a Node whose is_global
\* flag is false; the error is LogicError when the source is such a Node, and
\* when the destination is and the source resolves to a Node whose flag is
\* true.  The definition succeeds and is stored in root when both endpoints
\* resolve to Nodes whose flag is true and its column names are distinct.
C8_RootEdge ==
    \A def \in RootEdgeDefs :
        /\ C8Case(def, MemRes(def.src), MemRes(def.dst), MemOutcome(def))
        /\ C8Case(def, SesRes(def.src), SesRes(def.dst), SesOutcome(def))

\* A root edge from a global Node to a local Node was refused with LogicError
\* on both backends.
C8_Witness ==
    /\ res = [mem |-> "LogicError", ses |-> "LogicError"]
    /\ \E def \in RootEdgeDefs :
          /\ GlobalNode(MemRes(def.src)) /\ LocalNode(MemRes(def.dst))
          /\ GlobalNode(SesRes(def.src)) /\ LocalNode(SesRes(def.dst))
          /\ FailedWith(MemOutcome(def), "LogicError")
          /\ FailedWith(SesOutcome(def), "LogicError")

C8StatedCase(def, s, d, o) ==
    /\ (LocalNode(s) \/ LocalNode(d)) => FailedWith(o, "LogicError")
    /\ (GlobalNode(s) /\ GlobalNode(d)) => o.res = "Ok" /\ o.bound # None

\* C8 as stated: an edge definition made in root fails with LogicError and
\* stores no binding whenever its source or destination resolves to a Node
\* whose is_global flag is false, and succeeds and is stored in root when
\* both resolve to Nodes whose flag is true.
C8_Stated ==
    \A def \in RootEdgeDefs :
        /\ C8StatedCase(def, MemRes(def.src), MemRes(def.dst), MemOutcome(def))
        /\ C8StatedCase(def, SesRes(def.src), SesRes(def.dst), SesOutcome(def))

\* The error an endpoint that is no Node is refused with.
NonNodeError(t, in_root) ==
    IF in_root /\ LocalTable(t) THEN "LogicError" ELSE "UnexpectedDataKind"

\* An endpoint parse_edge_def accepts.
Accepted(t, in_root) == t # None /\ t.prefix = "Node" /\ (in_root => IsGlobal(t))

C9Case(def, s, d, o) ==
    /\ (s = None \/ d = None \/ NonNode(s) \/ NonNode(d)) => Failed(o)
    /\ s = None => o.res = "UndefinedType"
    /\ NonNode(s) => o.res = NonNodeError(s, def.in_root)
    /\ (Accepted(s, def.in_root) /\ d = None) => o.res = "UndefinedType"
    /\ (Accepted(s, def.in_root) /\ NonNode(d)) => o.res = NonNodeError(d, def.in_root)

\* C9 (amended): an edge definition whose source or destination is unresolved
\* or resolves to a definition that is not a Node fails and stores no binding.
\* The source decides the error, and the destination does when the source is
\* accepted: UndefinedType for an unresolved name; for a definition that is
\* not a Node, UnexpectedDataKind, except LogicError when the edge is made in
\* root and the definition is an Edge or Associate whose is_global flag is
\* false.
C9_EdgeEndpoints ==
    \A def \in EdgeDefs :
        /\ C9Case(def, MemRes(def.src), MemRes(def.dst), MemOutcome(def))
        /\ C9Case(def, SesRes(def.src), SesRes(def.dst), SesOutcome(def))

\* An edge whose source resolves to an Edge was refused with
\* UnexpectedDataKind on both backends.
C9_Witness ==
    /\ res = [mem |-> "UnexpectedDataKind", ses |-> "UnexpectedDataKind"]
    /\ \E def \in EdgeDefs :
          /\ MemRes(def.src) # None /\ MemRes(def.src).prefix = "Edge"
          /\ SesRes(def.src) # None /\ SesRes(def.src).prefix = "Edge"
          /\ FailedWith(MemOutcome(def), "UnexpectedDataKind")
          /\ FailedWith(SesOutcome(def), "UnexpectedDataKind")

C9StatedCase(def, s, d, o) ==
    /\ (s # None /\ d # None /\ (NonNode(s) \/ NonNode(d))) =>
          FailedWith(o, "UnexpectedDataKind")
    /\ ((s = None \/ d = None) /\ ~NonNode(s) /\ ~NonNode(d)) =>
          FailedWith(o, "UndefinedType")

\* C9 as stated: an edge definition whose source or destination resolves to a
\* definition that is not a Node fails with UnexpectedDataKind, one whose
\* source or destination is unresolved fails with UndefinedType, and nothing
\* is stored (read of the two cases apart: both names resolved, and no name
\* resolved to a definition that is not a Node).
C9_Stated ==
    \A def \in EdgeDefs :
        /\ C9StatedCase(def, MemRes(def.src), MemRes(def.dst), MemOutcome(def))
        /\ C9StatedCase(def, SesRes(def.src), SesRes(def.dst), SesOutcome(def))

C10Case(def, s, o) ==
    /\ Failed(o)
    /\ (IsTable(s) /\ UniqueNames(def.cols)) => o.res = "LogicError"
    /\ s = None => o.res = "UndefinedType"
    /\ (s # None /\ ~IsTable(s)) => o.res = "UnexpectedDataKind"
    /\ (IsTable(s) /\ ~UniqueNames(def.cols)) =>
          o.res = IF def.in_root /\ ~IsGlobal(s) THEN "LogicError" ELSE "DuplicateNames"

\* C10 (amended): an association definition whose column list contains at
\* least one key-marked column fails and stores no binding; the error is
\* LogicError when its source resolves to a Node, Edge or Associate and its
\* column names are distinct.  Otherwise it is UndefinedType for an
\* unresolved source, UnexpectedDataKind for a source that is a Value or a
\* TypeAlias, and for repeated column names DuplicateNames, or LogicError
\* when the association is made in root over a source whose is_global flag
\* is false.
C10_KeyedAssoc ==
    \A def \in KeyedAssocDefs :
        /\ C10Case(def, MemRes(def.src), MemOutcome(def))
        /\ C10Case(def, SesRes(def.src), SesOutcome(def))

\* An association with one key column, over a source it may refer to, was
\* refused with LogicError on both backends.
C10_Witness ==
    /\ res = [mem |-> "LogicError", ses |-> "LogicError"]
    /\ \E def \in KeyedAssocDefs :
          /\ UniqueNames(def.cols)
          /\ IsTable(MemRes(def.src)) /\ IsTable(SesRes(def.src))
          /\ def.in_root => IsGlobal(MemRes(def.src)) /\ IsGlobal(SesRes(def.src))
          /\ FailedWith(MemOutcome(def), "LogicError")
          /\ FailedWith(SesOutcome(def), "LogicError")

\* C10 as stated: an association definition whose column list contains at
\* least one key-marked column fails with LogicError and stores no binding.
C10_Stated ==
    \A def \in KeyedAssocDefs :
        /\ FailedWith(MemOutcome(def), "LogicError")
        /\ FailedWith(SesOutcome(def), "LogicError")

(***************************************************************************)
(* Column lists.  Definitions whose column lists range over every list of  *)
(* at most MaxCols columns, key-marked or not, named from ColNames.        *)
(***************************************************************************)
MaxCols == 2
ColNames == {"a", "b"}
AllCols == {Col(k, n) : k \in BOOLEAN, n \in ColNames}
AllColLists == UNION {[1..n -> AllCols] : n \in 0..MaxCols}

\* A local node x, and a local edge and a local association y over it.
ColDefs ==
    {[kind |-> k, name |-> IF k = "node" THEN "x" ELSE "y",
      src |-> IF k = "node" THEN "" ELSE "x",
      dst |-> IF k = "edge" THEN "x" ELSE "", cols |-> c, in_root |-> FALSE] :
        k \in {"node", "edge", "assoc"}, c \in AllColLists}

NextCols == \E def \in ColDefs : RunDefinition(def)

SpecCols == Init /\ [][NextCols]_vars

\* The place of a name in a typing.
Pos(typing, n) == CHOOSE i \in 1..Len(typing) : typing[i] = n

\* typing holds the names of the columns of cols marked is_key, in their order.
InSourceOrder(cols, typing, is_key) ==
    /\ \A i \in 1..Len(cols) :
          cols[i].is_key = is_key <=> \E j \in 1..Len(typing) : typing[j] = cols[i].name
    /\ \A j \in 1..Len(typing) : \E i \in 1..Len(cols) : cols[i].name = typing[j]
    /\ \A i, j \in 1..Len(cols) :
          (i < j /\ cols[i].is_key = is_key /\ cols[j].is_key = is_key) =>
             Pos(typing, cols[i].name) < Pos(typing, cols[j].name)

C11Cols(cols, pc) ==
    IF UniqueNames(cols)
    THEN /\ pc.err = "Ok"
         /\ Len(pc.keys) + Len(pc.vals) = Len(cols)
         /\ InSourceOrder(cols, pc.keys, TRUE)
         /\ InSourceOrder(cols, pc.vals, FALSE)
    ELSE pc.err = "DuplicateNames"

C11Case(def, o) ==
    /\ ~UniqueNames(def.cols) => Failed(o)
    /\ (~UniqueNames(def.cols) /\ def.kind = "node") => o.res = "DuplicateNames"
    /\ (UniqueNames(def.cols) /\ def.kind = "node") =>
          /\ o.res = "Ok"
          /\ o.bound.prefix = "Node"
          /\ o.bound.data[3].t = "Text" /\ o.bound.data[4].t = "Text"
          /\ \E keys \in {SubSeq(o.bound.data[3].s, 2, Len(o.bound.data[3].s) - 1)},
                vals \in {SubSeq(o.bound.data[4].s, 2, Len(o.bound.data[4].s) - 1)} :
                /\ InSourceOrder(def.cols, keys, TRUE)
                /\ InSourceOrder(def.cols, vals, FALSE)

\* C11: parse_cols fails with DuplicateNames whenever two columns of one list
\* carry the same name, key-marked or not, so that run_definition of a node,
\* edge or association with a repeated column name stores nothing; when all
\* names are distinct the key-marked columns become keys_typing and the others
\* values_typing, each in source order, and a node is stored with them.
C11_Columns ==
    /\ \A cols \in AllColLists : C11Cols(cols, ParseCols(cols))
    /\ \A def \in ColDefs :
          /\ C11Case(def, MemOutcome(def))
          /\ C11Case(def, SesOutcome(def))

\* A node with a key column and a value column is stored on both backends and
\* a definition over it that names one column twice, once as a key and once as
\* a value, was refused with DuplicateNames.
C11_Witness ==
    /\ res = [mem |-> "DuplicateNames", ses |-> "DuplicateNames"]
    /\ \E n \in {MemRes("x")} :
          n # None /\ n.prefix = "Node" /\ Len(n.data[3].s) = 3 /\ Len(n.data[4].s) = 3
    /\ MemRes("x") = SesRes("x")
    /\ \E def \in ColDefs :
          /\ def.kind # "node"
          /\ Len(def.cols) = 2 /\ def.cols[1].is_key /\ ~def.cols[2].is_key
          /\ def.cols[1].name = def.cols[2].name
          /\ FailedWith(MemOutcome(def), "DuplicateNames")
          /\ FailedWith(SesOutcome(def), "DuplicateNames")

(***************************************************************************)
(* Edges over nodes, in nested scopes: definitions of nodes and edges      *)
(* without columns, among define_data, push_env and pop_env calls.         *)
(***************************************************************************)
EdgeOnlyDefs == {def \in NodeDefs \cup EdgeDefs : def.cols = <<>>}

NextEdge ==
    \/ \E def \in EdgeOnlyDefs : RunDefinition(def)
    \/ \E name \in Names : DefineData(name, FALSE)
    \/ PushEnv
    \/ PopEnv

SpecEdge == Init /\ [][NextEdge]_vars

\* What the defined name resolves to once run_definition has returned.
MemResolvedAfterOf(r, def) == MemResolve(r.root, r.stack, def.name)
MemResolvedAfter(def) ==
    MemResolvedAfterOf(MemRunDefinition(root, stack, max_storage_id, def), def)
SesResolvedAfterOf(r, def) ==
    SesResolve(r.perm_cf, r.temp_cf, SesGetStackDepth(stack_depth), def.name)
SesResolvedAfter(def) ==
    SesResolvedAfterOf(SesRunDefinition(perm_cf, temp_cf,
                                        SesGetStackDepth(stack_depth), def), def)

\* The name has a local binding, in any scope.
MemBoundLocally(n) == \E i \in 1..Len(stack) : n \in DOMAIN stack[i]
SesBoundLocally(n) == \E e \in SesLocals : e[1] = n

IsEdgeOver(t, s, d) ==
    /\ t # None
    /\ t.prefix = "Edge"
    /\ Len(t.data) >= 6
    /\ <<t.data[3], t.data[4]>> = <<s.data[1], s.data[2]>>
    /\ <<t.data[5], t.data[6]>> = <<d.data[1], d.data[2]>>

C12Case(def, s, d, o, after, hidden) ==
    o.res = "Ok" =>
       /\ IsEdgeOver(o.bound, s, d)
       /\ (def.in_root /\ hidden) \/ IsEdgeOver(after, s, d)

\* C12: once run_definition has stored an edge, the (global flag, id) pairs
\* the stored tuple records for its source and destination equal the
\* (is_global, id) prefix of the definitions its endpoint names resolved to
\* when it was defined, and resolve of the edge's name returns such an
\* Edge-kind tuple (a root edge whose name also has a local binding aside,
\* which resolve returns instead).
C12_EdgeIds ==
    \A def \in EdgeOnlyDefs :
        def.kind = "edge" =>
           /\ C12Case(def, MemRes(def.src), MemRes(def.dst), MemOutcome(def),
                      MemResolvedAfter(def), MemBoundLocally(def.name))
           /\ C12Case(def, SesRes(def.src), SesRes(def.dst), SesOutcome(def),
                      SesResolvedAfter(def), SesBoundLocally(def.name))

(***************************************************************************)
(* The partial evaluator.  A List holds its elements in s, a Dict its      *)
(* <<key, value>> pairs in key order, a Variable its name, an Apply its    *)
(* operator followed by its arguments.                                     *)
(***************************************************************************)
ListV(elems) == [t |-> "List", s |-> elems, i |-> 0]
DictV(pairs) == [t |-> "Dict", s |-> pairs, i |-> 0]
VariableV(name) == [t |-> "Variable", s |-> <<name>>, i |-> 0]
ApplyV(op, args) == [t |-> "Apply", s |-> <<op>> \o args, i |-> 0]

Scalars == {"Null", "Bool", "UInt", "Int", "Float", "Uuid", "Text", "EndSentinel"}

\* The operators partial_eval dispatches on.
Ops == {"+", "-", "*", "/", "==", "!=", "||", "&&", "%", ">", ">=", "<", "<=", "**",
        "~~", "!", "--"}

\* Value::is_evaluated: no Variable and no Apply anywhere in the value.
RECURSIVE IsEvaluated(_)
IsEvaluated(v) ==
    CASE v.t = "List" -> \A i \in 1..Len(v.s) : IsEvaluated(v.s[i])
      [] v.t = "Dict" -> \A i \in 1..Len(v.s) : IsEvaluated(v.s[i][2])
      [] v.t \in {"Variable", "Apply"} -> FALSE
      [] OTHER -> TRUE

\* Result<(bool, Value)>: err is "panic" where the call aborts the process.
Evaluated(ev, val) == [err |-> "Ok", ev |-> ev, val |-> val]
EvalFailed(err) == [err |-> err, ev |-> FALSE, val |-> NullV]

\* try_fold over the results of the elements: the first failure ends it.
FoldResults(rs, val) ==
    IF \E i \in 1..Len(rs) : rs[i].err # "Ok"
    THEN EvalFailed(rs[CHOOSE i \in 1..Len(rs) :
                          /\ rs[i].err # "Ok"
                          /\ \A j \in 1..(i - 1) : rs[j].err = "Ok"].err)
    ELSE Evaluated(\A i \in 1..Len(rs) : rs[i].ev, val)

\* Mutant: a variable is replaced by whatever definition it resolves to.
PartialEvalVariable_inline(rs, v) ==
    IF rs = None
    THEN Evaluated(FALSE, v)
    ELSE IF Len(rs.data) < 1
    THEN EvalFailed("BadDataFormat")
    ELSE Evaluated(IsEvaluated(rs.data[1]), rs.data[1])

\* The Variable arm: rs is what resolve returned for the name.
PartialEvalVariable(rs, v) ==
    IF rs = None
    THEN Evaluated(FALSE, v)
    ELSE IF rs.prefix = "Value"
    THEN IF Len(rs.data) < 1
         THEN EvalFailed("BadDataFormat")
         ELSE Evaluated(IsEvaluated(rs.data[1]), rs.data[1])
    ELSE Evaluated(FALSE, v)

\* The Apply arm: add_values, sub_values and every other arm are todo!().
PartialEvalApply(op, args) == EvalFailed("panic")

\* partial_eval; env maps each name to what resolve returns for it.
RECURSIVE PartialEval(_, _)
PartialEval(env, v) ==
    CASE v.t \in Scalars -> Evaluated(TRUE, v)
      [] v.t = "List" ->
           FoldResults([i \in 1..Len(v.s) |-> PartialEval(env, v.s[i])],
                       ListV([i \in 1..Len(v.s) |-> PartialEval(env, v.s[i]).val]))
      [] v.t = "Dict" ->
           FoldResults([i \in 1..Len(v.s) |-> PartialEval(env, v.s[i][2])],
                       DictV([i \in 1..Len(v.s) |->
                                 <<v.s[i][1], PartialEval(env, v.s[i][2]).val>>]))
      [] v.t = "Variable" -> PartialEvalVariable(env[v.s[1]], v)
      [] OTHER -> PartialEvalApply(v.s[1], SubSeq(v.s, 2, Len(v.s)))

MemEnv == [n \in Names |-> MemRes(n)]
SesEnv == [n \in Names |-> SesRes(n)]

\* The values partial_eval is called with.
MaxLen == 2
Atoms == {IntV(1), VariableV("x"), VariableV("y")}
FlatLists == {ListV(q) : q \in UNION {[1..n -> Atoms] : n \in 0..MaxLen}}
Dicts == {DictV(<<<<"k", a>>>>) : a \in Atoms}
   \cup {DictV(<<<<"j", a>>, <<"k", b>>>>) : a \in Atoms, b \in Atoms}
Nested == {ListV(<<w>>) : w \in FlatLists \cup Dicts}
PlainValues == Atoms \cup FlatLists \cup Dicts \cup Nested
ApplyArgs == {<<a>> : a \in Atoms} \cup {<<a, b>> : a \in Atoms, b \in Atoms}
Applies == {ApplyV(op, args) : op \in Ops, args \in ApplyArgs}

\* The values the calls of the state machine are made with.
Exprs == Atoms \cup {ApplyV(op, <<VariableV("x"), IntV(1)>>) : op \in Ops}

\* The values define_variable binds.
BoundVals == {IntV(1), VariableV("y"), ListV(<<VariableV("x")>>)}

\* Definitions without columns, in the local scope: nodes and type aliases of
\* either name, an edge and an association y over x.
EvalDefs ==
    {def \in Defs : /\ def.cols = <<>>
                    /\ ~def.in_root
                    /\ \/ def.kind \in {"node", "type"}
                       \/ def.name = "y" /\ def.src = "x" /\ def.dst \in {"", "x"}}

\* define_variable(name, val, in_root): define_data of the Value tuple of val.
DefineVariable(name, val, in_root) ==
    /\ tok < MaxDefs
    /\ \E data \in {ValueTuple(val)} :
       \E m \in {MemDefineData(root, stack, name, data, in_root)},
          s \in {SesDefineData(perm_cf, temp_cf, SesGetStackDepth(stack_depth),
                              name, data, in_root)} :
          /\ root' = m.root
          /\ stack' = m.stack
          /\ perm_cf' = s.perm_cf
          /\ temp_cf' = s.temp_cf
          /\ Record(name, data, in_root)
    /\ tok' = tok + 1
    /\ res' = Ok
    /\ UNCHANGED <<max_storage_id, stack_depth, ids, exited, pushed>>

\* partial_eval(value): it reads the environment and returns.
CallPartialEval(value) ==
    /\ res' = [mem |-> PartialEval(MemEnv, value).err,
               ses |-> PartialEval(SesEnv, value).err]
    /\ UNCHANGED <<root, stack, max_storage_id, perm_cf, temp_cf, stack_depth, ids,
                   tok, scopes, exited, pushed, groot, base_local>>

NextEval ==
    \/ \E name \in Names, val \in BoundVals, in_root \in BOOLEAN :
          DefineVariable(name, val, in_root)
    \/ \E def \in EvalDefs : RunDefinition(def)
    \/ \E value \in Exprs : CallPartialEval(value)

SpecEval == Init /\ [][NextEval]_vars

C13Case(env, p) == p.err = "Ok" => PartialEval(env, p.val) = p

\* C13: partial_eval is idempotent: for every value built from scalars,
\* lists, dicts and variables and every set of bindings, variables bound to
\* values that contain variables included, partial_eval of the value
\* partial_eval returned gives the same (flag, value) pair again.
C13_Idempotent ==
    \A v \in PlainValues :
        /\ C13Case(MemEnv, PartialEval(MemEnv, v))
        /\ C13Case(SesEnv, PartialEval(SesEnv, v))

C14Case(rs, n, p) ==
    /\ rs = None => p = Evaluated(FALSE, VariableV(n))
    /\ (rs # None /\ rs.prefix = "Value" /\ Len(rs.data) = 1) =>
          p = Evaluated(IsEvaluated(rs.data[1]), rs.data[1])
    /\ (rs # None /\ rs.prefix \in {"Node", "Edge", "Associate", "TypeAlias"}) =>
          p = Evaluated(FALSE, VariableV(n))

\* C14: partial_eval(Variable(name)) returns (false, Variable(name)) without
\* error when the name does not resolve, (payload.is_evaluated(), payload)
\* when it resolves to a Value definition with that single payload, and
\* (false, Variable(name)) when it resolves to a Node, Edge, Associate or
\* TypeAlias definition, on both backends.
C14_VariableArm ==
    \A n \in Names :
        /\ C14Case(MemRes(n), n, PartialEval(MemEnv, VariableV(n)))
        /\ C14Case(SesRes(n), n, PartialEval(SesEnv, VariableV(n)))

\* With x a Node and y an Edge on both backends, partial_eval was called and
\* returned without error, and leaves both variables as they are.
C14_Witness ==
    /\ res = Ok
    /\ MemRes("x") # None /\ MemRes("x").prefix = "Node"
    /\ SesRes("x") # None /\ SesRes("x").prefix = "Node"
    /\ MemRes("y") # None /\ MemRes("y").prefix = "Edge"
    /\ SesRes("y") # None /\ SesRes("y").prefix = "Edge"
    /\ \A n \in Names :
          /\ PartialEval(MemEnv, VariableV(n)) = Evaluated(FALSE, VariableV(n))
          /\ PartialEval(SesEnv, VariableV(n)) = Evaluated(FALSE, VariableV(n))

\* The arguments of an Apply, and each replaced by its own partial_eval result.
ArgsOf(v) == SubSeq(v.s, 2, Len(v.s))
Reduced(env, args) == [i \in 1..Len(args) |-> PartialEval(env, args[i]).val]
StaysUnresolved(env, args) == \E i \in 1..Len(args) : ~PartialEval(env, args[i]).ev

C15Case(env, v) ==
    StaysUnresolved(env, ArgsOf(v)) =>
       PartialEval(env, v) = Evaluated(FALSE, ApplyV(v.s[1], Reduced(env, ArgsOf(v))))

\* C15: for every operator of the fixed set, partial_eval of an Apply in
\* which at least one operand stays unresolved returns
\* Ok((false, Apply(op, reduced_args))), each operand replaced by its own
\* partial_eval result, and never aborts the process.
C15_ApplyDefers ==
    \A v \in Applies : C15Case(MemEnv, v) /\ C15Case(SesEnv, v)

(***************************************************************************)
(* Tuples stored directly through define_data: of a table kind, with and   *)
(* without the (Bool, UInt) prefix run_definition puts ahead of the body.  *)
(***************************************************************************)
RawTuples ==
    {[prefix |-> k, data |-> d] :
        k \in {"Node", "Edge", "Associate"},
        d \in {<<>>, <<BoolV(FALSE)>>, <<UIntV(1), BoolV(TRUE)>>,
               <<BoolV(TRUE), UIntV(1)>>}}

\* Edges and associations without columns, which refer to other definitions.
RawDefs == {def \in EdgeDefs \cup AssocDefs : def.cols = <<>>}

\* define_data(name, data, in_root) with a tuple of the caller's making.
DefineTuple(name, data, in_root) ==
    /\ tok < MaxDefs
    /\ \E m \in {MemDefineData(root, stack, name, data, in_root)},
          s \in {SesDefineData(perm_cf, temp_cf, SesGetStackDepth(stack_depth),
                              name, data, in_root)} :
          /\ root' = m.root
          /\ stack' = m.stack
          /\ perm_cf' = s.perm_cf
          /\ temp_cf' = s.temp_cf
          /\ Record(name, data, in_root)
    /\ tok' = tok + 1
    /\ res' = Ok
    /\ UNCHANGED <<max_storage_id, stack_depth, ids, exited, pushed>>

NextRaw ==
    \/ \E name \in Names, data \in RawTuples, in_root \in BOOLEAN :
          DefineTuple(name, data, in_root)
    \/ \E def \in RawDefs : RunDefinition(def)

SpecRaw == Init /\ [][NextRaw]_vars

\* The stored tuple is of a table kind and lacks the (Bool, UInt) prefix.
Malformed(t) ==
    /\ IsTable(t)
    /\ ~(Len(t.data) >= 2 /\ t.data[1].t = "Bool" /\ t.data[2].t = "UInt")

\* The Result is an error value handed to the caller.
ExplicitError(err) ==
    err \in {"UndefinedType", "UnexpectedDataKind", "DuplicateNames", "LogicError",
             "BadDataFormat"}

C16Case(def, s, o) == Malformed(s) => ExplicitError(o.res)

\* C16: when a cross-reference of an edge or association definition resolves
\* to a stored tuple of kind Node, Edge or Associate whose first two elements
\* are not a Bool flag followed by a UInt id, run_definition returns an
\* explicit error value to its caller and does not abort the process.
C16_CorruptIsError ==
    \A def \in RawDefs :
        /\ C16Case(def, MemRes(def.src), MemOutcome(def))
        /\ C16Case(def, SesRes(def.src), SesOutcome(def))

(***************************************************************************)
(* Definitions in nested scopes: run_definition among push_env and pop_env *)
(* calls: a node x, without columns or naming a column twice, and a type  *)
(* alias, an edge and an association y over it, without columns.           *)
(***************************************************************************)
ScopedDefs ==
    {def \in Defs :
        \/ def.kind = "node" /\ def.name = "x"
              /\ (def.cols = <<>> \/ ~UniqueNames(def.cols))
        \/ def.kind # "node" /\ def.name = "y" /\ def.cols = <<>>
              /\ def.src \in {"", "x"}}

NextScoped ==
    \/ \E def \in ScopedDefs : RunDefinition(def)
    \/ PushEnv
    \/ PopEnv

SpecScoped == Init /\ [][NextScoped]_vars

MemRun(def) == MemRunDefinition(root, stack, max_storage_id, def)
SesRun(def) == SesRunDefinition(perm_cf, temp_cf, SesGetStackDepth(stack_depth), def)

\* The tuples bound in root and in the local scopes of each backend.
MemRootTuples == {root[n] : n \in DOMAIN root}
MemLocalTuples == {e[2] : e \in MemLocals}
SesRootTuples ==
    {perm_cf[k] : k \in {j \in DOMAIN perm_cf : Len(j.data) = 2}}
SesLocalTuples == {e[2] : e \in SesLocals}

\* A stored tuple as run_definition leaves it in a namespace.
WellPrefixed(t, in_root) ==
    /\ IsTable(t) =>
          /\ Len(t.data) >= 2
          /\ t.data[1] = BoolV(in_root)
          /\ t.data[2].t = "UInt" /\ t.data[2].i >= 1
    /\ t.prefix = "TypeAlias" => Len(t.data) = 1 /\ t.data[1].t = "Text"

\* The tuple a successful run_definition binds, given the parse p and the id
\* get_next_storage_id(in_root) returns in this state.
C17Case(def, o, p, id) ==
    o.res = "Ok" =>
       IF def.kind = "type"
       THEN o.bound = p.tuple /\ o.bound.prefix = "TypeAlias"
       ELSE /\ o.bound.prefix = p.tuple.prefix
            /\ IsTable(o.bound)
            /\ o.bound.data[1] = BoolV(def.in_root)
            /\ o.bound.data[2] = UIntV(id)
            /\ SubSeq(o.bound.data, 3, Len(o.bound.data)) = p.tuple.data

\* C17: after any sequence of run_definition, push_env and pop_env calls,
\* every Node, Edge or Associate tuple bound in root begins with is_global =
\* true and a UInt id, every such tuple bound in a local scope with is_global
\* = false and a UInt id, and a TypeAlias tuple carries no such prefix; the id
\* a run_definition puts there is the one get_next_storage_id returns for the
\* definition's namespace in that call, and the kind-specific body follows it
\* unchanged.
C17_StoragePrefix ==
    /\ \A t \in MemRootTuples \cup SesRootTuples : WellPrefixed(t, TRUE)
    /\ \A t \in MemLocalTuples \cup SesLocalTuples : WellPrefixed(t, FALSE)
    /\ \A def \in ScopedDefs :
          /\ C17Case(def, MemOutcome(def),
                     ParseDefinition(MemRes(def.src), MemRes(def.dst), def),
                     MemGetNextStorageId(max_storage_id, def.in_root))
          /\ C17Case(def, SesOutcome(def),
                     ParseDefinition(SesRes(def.src), SesRes(def.dst), def),
                     SesNextId(IF def.in_root THEN perm_cf ELSE temp_cf))

\* Inside a nested scope, both backends hold a table definition in root and
\* one in a local scope, each with the prefix of its namespace.
C17_Witness ==
    /\ Len(scopes) > 0
    /\ res = Ok
    /\ \E t \in MemRootTuples : IsTable(t) /\ t \in SesRootTuples
    /\ \E t \in MemLocalTuples : IsTable(t) /\ t.data[1] = BoolV(FALSE)
    /\ \E t \in SesLocalTuples : IsTable(t) /\ t.data[1] = BoolV(FALSE)

ValidationError(err) ==
    err \in {"UndefinedType", "UnexpectedDataKind", "DuplicateNames", "LogicError"}

C18Mem(def, r) ==
    /\ ValidationError(r.res) =>
          /\ r.root = root /\ r.stack = stack
          /\ MemGetStackDepth(r.stack) = MemGetStackDepth(stack)
          /\ \A b \in BOOLEAN : MemGetNextStorageId(r.max_storage_id, b)
                                   = MemGetNextStorageId(max_storage_id, b)
    /\ (def.kind = "type" /\ r.res = "Ok") => r.max_storage_id = max_storage_id

C18Ses(def, r) ==
    /\ ValidationError(r.res) =>
          /\ r.perm_cf = perm_cf /\ r.temp_cf = temp_cf
          /\ SesNextId(r.perm_cf) = SesNextId(perm_cf)
          /\ SesNextId(r.temp_cf) = SesNextId(temp_cf)
    /\ (def.kind = "type" /\ r.res = "Ok") =>
          /\ TxnGet(r.perm_cf, StorageIdKey) = TxnGet(perm_cf, StorageIdKey)
          /\ TxnGet(r.temp_cf, StorageIdKey) = TxnGet(temp_cf, StorageIdKey)

\* C18: when run_definition returns a validation error the environment is
\* left as it was: no binding is added or replaced in root or in any scope,
\* the stack depth is the same, and no storage id is consumed; a successful
\* type-alias definition consumes no storage id either.
C18_FailedIsNoop ==
    \A def \in ScopedDefs : C18Mem(def, MemRun(def)) /\ C18Ses(def, SesRun(def))

\* Inside a nested scope with a definition stored, run_definition returned a
\* validation error on both backends.
C18_Witness ==
    /\ Len(scopes) > 0
    /\ tok > 0
    /\ ValidationError(res.mem) /\ ValidationError(res.ses)
    /\ \E def \in ScopedDefs : MemRun(def).res = res.mem /\ SesRun(def).res = res.ses

(***************************************************************************)
(* Claims about the keys of the temporary column family and about          *)
(* delete_defined, under Spec.                                             *)
(***************************************************************************)
\* The primary keys (name, depth) and the index keys (depth, name) held.
PrimaryKeys == {k \in DOMAIN temp_cf : Len(k.data) = 2 /\ k.data[1].t = "Text"}
IndexKeys == {k \in DOMAIN temp_cf : Len(k.data) = 2 /\ k.data[1].t = "Int"}
Swapped(k) == Push(Push(WithNullPrefix, k.data[2]), k.data[1])

\* C19: on the transactional backend, in every state reachable through
\* define_data, delete_defined, push_env and pop_env, the temporary namespace
\* holds a primary key (name, depth) if and only if it holds the index key
\* (depth, name).
C19_IndexInSync ==
    /\ \A k \in PrimaryKeys : Swapped(k) \in IndexKeys
    /\ \A k \in IndexKeys : Swapped(k) \in PrimaryKeys

\* Inside a nested scope that holds a binding, with its index entry, after a
\* nested scope was exited with a binding in it.
C19_Witness ==
    /\ stack_depth < 0
    /\ exited # {}
    /\ \E k \in PrimaryKeys : k.data[2] = IntV(stack_depth) /\ Swapped(k) \in IndexKeys

\* What a backend holds outside the current innermost scope.
MemEnclosing == Front(stack)
SesEnclosing ==
    [k \in {j \in DOMAIN temp_cf : ~KeyHasDepth(j, SesGetStackDepth(stack_depth))}
       |-> temp_cf[k]]

\* C20: delete_defined(name, in_root = false) removes at most the binding of
\* the name held by the current innermost scope, and leaves the bindings of
\* enclosing scopes and of root unchanged, also when the current scope has no
\* binding of the name; delete_defined(name, in_root = true) removes only the
\* root binding and changes no local binding; on both backends.
C20_DeleteFrame ==
    [][\A n \in Names :
          /\ DeleteDefined(n, FALSE) =>
                /\ root' = root /\ perm_cf' = perm_cf
                /\ MemEnclosing' = MemEnclosing
                /\ SesEnclosing' = SesEnclosing
          /\ DeleteDefined(n, TRUE) =>
                /\ stack' = stack /\ temp_cf' = temp_cf
                /\ root' = MapDel(root, n)
                /\ \A k \in DOMAIN perm_cf' : k \in DOMAIN perm_cf /\ perm_cf'[k] = perm_cf[k]
      ]_vars

(***************************************************************************)
(* The two backends side by side, under Spec: every state holds a          *)
(* MemoryEnv and a Session that received the same calls since they were    *)
(* made.                                                                   *)
(***************************************************************************)
\* C21: the two backends implement one contract: after every finite sequence
\* of push_env, pop_env, define_data, delete_defined and get_next_storage_id
\* calls applied to a fresh MemoryEnv and to a fresh Session, resolve(name)
\* returns the same tuple, or none, for every name on both, and
\* get_stack_depth and the ids returned agree.
C21_OneContract ==
    /\ \A n \in Names : MemRes(n) = SesRes(n)
    /\ MemGetStackDepth(stack) = SesGetStackDepth(stack_depth)
    /\ ids.mem = ids.ses

(***************************************************************************)
(* Associations without key columns, over sources of every kind: values    *)
(* bound by define_data, type aliases, nodes, edges from a node to itself  *)
(* and other associations.                                                 *)
(***************************************************************************)
\* Associations with no column, or with one value column.
KeylessAssocDefs ==
    {[def EXCEPT !.cols = c] :
        def \in {a \in AssocDefs : a.cols = <<>>}, c \in {<<>>, <<Col(FALSE, "id")>>}}

AssocSpecDefs ==
    {def \in NodeDefs \cup TypeDefs : def.cols = <<>>}
       \cup {def \in EdgeDefs : def.cols = <<>> /\ def.src = def.dst}
       \cup KeylessAssocDefs

NextAssoc ==
    \/ \E def \in AssocSpecDefs : RunDefinition(def)
    \/ \E name \in Names, in_root \in BOOLEAN : DefineData(name, in_root)

SpecAssoc == Init /\ [][NextAssoc]_vars

C22Case(def, s, o) ==
    /\ o.res = "Ok" <=> (IsTable(s) /\ ~(def.in_root /\ ~IsGlobal(s)))
    /\ o.res = "Ok" =>
          /\ o.bound # None /\ o.bound.prefix = "Associate"
          /\ o.bound.data[1] = BoolV(def.in_root)
          /\ <<o.bound.data[3], o.bound.data[4]>> = <<s.data[1], s.data[2]>>
    /\ o.res # "Ok" => o.same
    /\ s = None => o.res = "UndefinedType"
    /\ (s # None /\ s.prefix \in {"Value", "TypeAlias"}) => o.res = "UnexpectedDataKind"
    /\ (IsTable(s) /\ def.in_root /\ ~IsGlobal(s)) => o.res = "LogicError"

\* C22: run_definition of an association whose column list has unique names
\* and no key column succeeds exactly when its source name resolves to a
\* Node, Edge or Associate definition and the association is not a root
\* definition over a source whose is_global flag is false (so a local
\* association over a global source succeeds); an unresolved source fails
\* with UndefinedType, a Value or TypeAlias source with UnexpectedDataKind,
\* and a root association over a local source with LogicError.
C22_KeylessAssoc ==
    \A def \in KeylessAssocDefs :
        /\ C22Case(def, MemRes(def.src), MemOutcome(def))
        /\ C22Case(def, SesRes(def.src), SesOutcome(def))

\* A local association over a global source is stored on both backends.
C22_Witness ==
    /\ res = Ok
    /\ \E n \in Names :
          /\ MemRes(n) # None /\ MemRes(n).prefix = "Associate"
          /\ MemRes(n).data[1] = BoolV(FALSE) /\ MemRes(n).data[3] = BoolV(TRUE)
          /\ SesRes(n) # None /\ SesRes(n).prefix = "Associate"
          /\ SesRes(n).data[1] = BoolV(FALSE) /\ SesRes(n).data[3] = BoolV(TRUE)

(***************************************************************************)
(* Bindings in root and in the scopes: define_data and delete_defined      *)
(* among push_env and pop_env calls.                                       *)
(***************************************************************************)
NextBind ==
    \/ PushEnv
    \/ PopEnv
    \/ \E name \in Names, in_root \in BOOLEAN : DefineData(name, in_root)
    \/ \E name \in Names, in_root \in BOOLEAN : DeleteDefined(name, in_root)

SpecBind == Init /\ [][NextBind]_vars

\* The tuples the scopes of a backend hold for the name.
MemLocalOf(n) == {e[2] : e \in {l \in MemLocals : l[1] = n}}
SesLocalOf(n) == {e[2] : e \in {l \in SesLocals : l[1] = n}}

C23State(n, local, resolved) ==
    IF local # {}
    THEN resolved \in local /\ resolved # MapGet(groot, n)
    ELSE resolved = MapGet(groot, n)

\* C23: on both backends a live local binding takes precedence over a root
\* binding of the same name: while a scope holds a binding of the name made
\* with in_root = false, resolve(name) returns a local tuple and not the root
\* one, and a define_data(name, t, true) made then does not change what
\* resolve(name) returns; once pop_env or delete_defined have removed every
\* local binding of the name, resolve(name) returns the tuple most recently
\* stored in root under it.
C23_LocalFirst ==
    /\ [](\A n \in Names : /\ C23State(n, MemLocalOf(n), MemRes(n))
                           /\ C23State(n, SesLocalOf(n), SesRes(n)))
    /\ [][\A n \in Names :
             DefineData(n, TRUE) =>
                /\ MemLocalOf(n) # {} => MemRes(n)' = MemRes(n)
                /\ SesLocalOf(n) # {} => SesRes(n)' = SesRes(n)]_vars

\* Inside a nested scope a name is bound both in root and in a scope, and
\* resolves on both backends to the local tuple, not to the root one.
C23_Witness ==
    /\ Len(scopes) > 0
    /\ \E n \in Names :
          /\ n \in DOMAIN groot
          /\ MemLocalOf(n) # {} /\ SesLocalOf(n) # {}
          /\ MemRes(n) # groot[n] /\ SesRes(n) # groot[n]

====
